---- MODULE Spec2Model ----
(***************************************************************************)
(* Variation tree and chapter export of the chess repertoire builder.      *)
(*                                                                         *)
(* A game is an arena of move nodes: node 1 is the root (chess.pgn.Game),  *)
(* every other node holds its move, comment, NAG set, parent and the       *)
(* ordered sequence of its child variations (index 1 here is index 0 of    *)
(* the Python list, the main line).  Text (comments, names, file names) is *)
(* a sequence of atoms; every atom stands for a fixed piece of text of one *)
(* character class (word characters, white space, hyphen, punctuation).    *)
(***************************************************************************)
EXTENDS Integers, Sequences, FiniteSets, TLC

VARIABLES
    game,            \* the parsed source tree (process_pgn: game), an arena of nodes
    headers,         \* game.headers / metadata: header key -> text
    pgn_content,     \* what the input file held: the tree and headers as read
    pc,              \* position inside export_chessable / process_pgn
    split_node,      \* result of find_split_node, 0 for None
    node,            \* the node whose children become chapters, 0 before it is set
    all_variations,  \* the branches to export, in order
    chapters,        \* the chapters built so far, in loop order
    files,           \* the output directory: file name -> content
    doc,             \* naming alone: the headers, two branch roots and one
                     \* more comment of an input text
    meta,            \* naming alone: metadata, and whether it was extracted
    named,           \* naming alone: the names given to the roots so far
    edit,            \* the change made to a tree after the export, with the
                     \* trees as they were before it
    gtree,           \* editor: the tree that holds the cursor, an arena
    gui_game,        \* editor: self.game, the root of gtree or NoNode for None
    gui_current_node, \* editor: self.current_node
    board,           \* editor: self.board.move_stack
    prev,            \* editor: the last make_move calls, for the properties
    last,            \* editor: the last navigation call and the state it met
    analysis_running, \* analysis: self.analysis_running
    engine,          \* analysis: self.engine, NoEngine for None
    worker,          \* analysis: where each run_analysis thread stands
    quit,            \* analysis: the engines that have been quit
    harmed,          \* analysis: a worker stopped or stripped a newer one
    first_run        \* export twice: the files of the first export

exportVars == <<game, headers, pgn_content, pc, split_node, node,
                all_variations, chapters, files>>

nameVars == <<doc, meta, named>>

guiVars == <<gtree, gui_game, gui_current_node, board, prev, last>>

analysisVars == <<analysis_running, engine, worker, quit, harmed>>

restVars == <<analysisVars, first_run>>

otherVars == <<nameVars, edit, guiVars, restVars>>

vars == <<exportVars, nameVars, edit, guiVars, restVars>>

-----------------------------------------------------------------------------
(* Bounds of the model *)

MaxNameLen == 3      \* pieces of a branch comment when names are derived
MaxNodes == 5        \* nodes of a source tree, root included
MaxComments == 2     \* nodes of a source tree that carry a comment
NumMoves == 3        \* distinct moves used in source trees

-----------------------------------------------------------------------------
(* Text *)

WhiteSpace == {" ", "\t", "\n"}

WordAtoms == {"x", "y", "Main", "Line", "Variation", "Opening", "Untitled",
              "Chapter", "SPLIT_CHAPTERS", "_", "main_line",
              "0", "1", "2", "3", "4", "5", "6", "7", "8", "9"}

SPLIT_MARKER == <<"[", "SPLIT_CHAPTERS", "]">>

MainLineText == <<"Main", " ", "Line">>

\* pat in s
Contains(s, pat) ==
    \E k \in 0..(Len(s) - Len(pat)) : SubSeq(s, k + 1, k + Len(pat)) = pat

\* s.replace(pat, ""): left to right, occurrences that do not overlap
RECURSIVE Remove(_, _)
Remove(s, pat) ==
    IF Len(s) < Len(pat) \/ Len(pat) = 0 THEN s
    ELSE IF SubSeq(s, 1, Len(pat)) = pat
         THEN Remove(SubSeq(s, Len(pat) + 1, Len(s)), pat)
         ELSE <<Head(s)>> \o Remove(Tail(s), pat)

RECURSIVE LStrip(_)
LStrip(s) ==
    IF s # <<>> /\ Head(s) \in WhiteSpace THEN LStrip(Tail(s)) ELSE s

RECURSIVE RStrip(_)
RStrip(s) ==
    IF s # <<>> /\ s[Len(s)] \in WhiteSpace
    THEN RStrip(SubSeq(s, 1, Len(s) - 1)) ELSE s

\* s.strip()
Strip(s) == RStrip(LStrip(s))

Digit(d) == <<"0", "1", "2", "3", "4", "5", "6", "7", "8", "9">>[d + 1]

\* str(i) for i >= 0
RECURSIVE Decimal(_)
Decimal(i) ==
    IF i < 10 THEN <<Digit(i)>> ELSE Decimal(i \div 10) \o <<Digit(i % 10)>>

\* mutant of Fmt02d: the last two digits alone
Fmt02d_TwoDigits(i) == <<Digit((i \div 10) % 10), Digit(i % 10)>>

\* f"{i:02d}"
Fmt02d(i) == IF i < 10 THEN <<"0">> \o Decimal(i) ELSE Decimal(i)

-----------------------------------------------------------------------------
(* Nodes and trees *)

NoNode == 0
Root == 1

\* chess.pgn.Game(): a root without move, comment, NAGs or children
NewGame ==
    << [move |-> 0, comment |-> <<>>, nags |-> {}, parent |-> NoNode,
        variations |-> <<>>, orig |-> Root, own |-> TRUE] >>

\* mutant of add_variation: the source node itself is appended to the
\* children of parent, no node is created
add_variation_Attach(t, parent, move, from) ==
    LET id == Len(t) + 1
        t1 == [t EXCEPT ![parent].variations = Append(@, id)]
    IN  Append(t1, [move |-> move, comment |-> <<>>, nags |-> {},
                    parent |-> parent, variations |-> <<>>, orig |-> from,
                    own |-> FALSE])

\* parent.add_variation(move): a new last child of parent; its id is Len + 1.
\* orig records which source node the move was taken from; own says that the
\* node is a new object with a NAG set and a child list of its own.
add_variation(t, parent, move, from) ==
    LET id == Len(t) + 1
        t1 == [t EXCEPT ![parent].variations = Append(@, id)]
    IN  Append(t1, [move |-> move, comment |-> <<>>, nags |-> {},
                    parent |-> parent, variations |-> <<>>, orig |-> from,
                    own |-> TRUE])

Nodes(t) == 1..Len(t)


-----------------------------------------------------------------------------
(* find_split_node and the structural search of process_pgn *)

Reverse(s) == [k \in 1..Len(s) |-> s[Len(s) + 1 - k]]

\* the loop of find_split_node over its explicit stack; the top is the last
\* element.  Yields the node found, NoNode when the stack runs empty.
RECURSIVE FindLoop(_, _)
FindLoop(t, stack) ==
    IF stack = <<>> THEN NoNode
    ELSE LET n == stack[Len(stack)]
             rest == SubSeq(stack, 1, Len(stack) - 1)
         IN  IF t[n].comment # <<>> /\ Contains(t[n].comment, SPLIT_MARKER)
             THEN n
             ELSE FindLoop(t, rest \o Reverse(t[n].variations))

\* find_split_node(game, marker): the node returned
find_split_node(t) == FindLoop(t, <<Root>>)

\* find_split_node's write to the node it returns
StripMarker(t, n) ==
    [t EXCEPT ![n].comment = Strip(Remove(@, SPLIT_MARKER))]

\* SPLIT_MARKER in pgn_content: the text holds every comment and header value
has_split_marker(t, h) ==
    \/ \E n \in Nodes(t) : Contains(t[n].comment, SPLIT_MARKER)
    \/ \E k \in DOMAIN h : Contains(h[k], SPLIT_MARKER)

\* main_line_nodes: the root, then child 0 repeatedly, the last node included
RECURSIVE MainLineNodes(_, _)
MainLineNodes(t, n) ==
    IF t[n].variations = <<>> THEN <<n>>
    ELSE <<n>> \o MainLineNodes(t, t[n].variations[1])

\* mutant of FirstWithSiblings: the range over the siblings starts at 0, so
\* the main-line child counts as a sibling
RECURSIVE FirstWithSiblings_AnyChild(_, _)
FirstWithSiblings_AnyChild(t, ns) ==
    IF ns = <<>> THEN NoNode
    ELSE IF Len(t[Head(ns)].variations) > 0 THEN Head(ns)
         ELSE FirstWithSiblings_AnyChild(t, Tail(ns))

\* the first node of the sequence with a sibling variation, NoNode if none
RECURSIVE FirstWithSiblings(_, _)
FirstWithSiblings(t, ns) ==
    IF ns = <<>> THEN NoNode
    ELSE IF Len(t[Head(ns)].variations) > 1 THEN Head(ns)
         ELSE FirstWithSiblings(t, Tail(ns))

\* the fallback loop: step to child 0 first, then test the node stepped to
RECURSIVE FallbackLoop(_, _)
FallbackLoop(t, current_node) ==
    IF t[current_node].variations = <<>> THEN NoNode
    ELSE LET c == t[current_node].variations[1]
         IN  IF Len(t[c].variations) > 0 THEN c ELSE FallbackLoop(t, c)

\* the else branch of process_pgn: node starts as game
StructuralSplit(t) ==
    LET n == FirstWithSiblings(t, MainLineNodes(t, Root))
        f == FallbackLoop(t, Root)
    IN  IF n # NoNode THEN n
        ELSE IF f # NoNode THEN f ELSE Root

\* mutant of AllVariations: the siblings are collected before the main line
AllVariations_SiblingsFirst(t, n) ==
    LET v == t[n].variations
    IN  (IF Len(v) > 1 THEN SubSeq(v, 2, Len(v)) ELSE <<>>)
        \o (IF v # <<>> THEN <<v[1]>> ELSE <<>>)

\* all_variations: child 0 first, then the siblings in order
AllVariations(t, n) ==
    LET v == t[n].variations
    IN  (IF v # <<>> THEN <<v[1]>> ELSE <<>>)
        \o (IF Len(v) > 1 THEN SubSeq(v, 2, Len(v)) ELSE <<>>)

-----------------------------------------------------------------------------
(* extract_metadata: re.findall(r'\[(.*?) "(.*?)"\]', pgn_content)           *)
(* The text is taken line by line: one line per header, [Key "Value"], and  *)
(* one per comment, { comment }.  "." matches every atom but a line break.  *)

Quote == "\""

HeaderLine(k, v) == <<"[", k, " ", Quote>> \o v \o <<Quote, "]">>

CommentLine(c) == <<"{">> \o c \o <<"}">>

NoBreak(s, from, to) == \A k \in from..to : s[k] # "\n"

\* the matches that start at position a, as <<e1, e2>>: the tag is s[a+1..e1],
\* followed by a space and a quote, the value is s[e1+3..e2], followed by a
\* quote and a closing bracket
MatchesAt(s, a) ==
    IF s[a] # "[" THEN {}
    ELSE {m \in (a..Len(s)) \X (a..Len(s)) :
             /\ m[1] + 2 <= m[2]
             /\ m[2] + 2 <= Len(s)
             /\ s[m[1] + 1] = " " /\ s[m[1] + 2] = Quote
             /\ s[m[2] + 1] = Quote /\ s[m[2] + 2] = "]"
             /\ NoBreak(s, a + 1, m[2])}

\* both groups are lazy: the shortest tag wins, then the shortest value
FirstMatch(s, a) ==
    CHOOSE m \in MatchesAt(s, a) :
        \A o \in MatchesAt(s, a) :
            m[1] < o[1] \/ (m[1] = o[1] /\ m[2] <= o[2])

\* re.findall on one line from position a on: the <<tag, value>> pairs of the
\* matches, left to right, none overlapping another
RECURSIVE FindAll(_, _)
FindAll(s, a) ==
    IF a > Len(s) THEN <<>>
    ELSE IF MatchesAt(s, a) = {} THEN FindAll(s, a + 1)
    ELSE LET m == FirstMatch(s, a)
         IN  << <<SubSeq(s, a + 1, m[1]), SubSeq(s, m[1] + 3, m[2])>> >>
             \o FindAll(s, m[2] + 3)

\* for tag, value in matches: metadata[tag] = value
RECURSIVE Assign(_, _)
Assign(metadata, matches) ==
    IF matches = <<>> THEN metadata
    ELSE LET tag == Head(matches)[1]
             value == Head(matches)[2]
         IN  Assign([k \in DOMAIN metadata \cup {tag} |->
                        IF k = tag THEN value ELSE metadata[k]],
                    Tail(matches))

RECURSIVE ScanLines(_, _)
ScanLines(metadata, lines) ==
    IF lines = <<>> THEN metadata
    ELSE ScanLines(Assign(metadata, FindAll(Head(lines), 1)), Tail(lines))

\* extract_metadata(pgn_content): tag -> value, a later match replacing an
\* earlier one; the tags are pieces of text like the values
extract_metadata(lines) == ScanLines(<<>>, lines)

RECURSIVE SetToSeq(_)
SetToSeq(S) ==
    IF S = {} THEN <<>>
    ELSE LET x == CHOOSE y \in S : TRUE IN <<x>> \o SetToSeq(S \ {x})

\* the lines of a PGN text with the headers h and the comments cs, in order
PgnLines(h, cs) ==
    LET keys == SetToSeq(DOMAIN h)
    IN  [k \in 1..Len(keys) |-> HeaderLine(keys[k], h[keys[k]])]
        \o [k \in 1..Len(cs) |-> CommentLine(cs[k])]

-----------------------------------------------------------------------------
(* Names *)

\* create_chapter_name
create_chapter_name(variation_comment) ==
    IF variation_comment = <<>> THEN MainLineText ELSE Strip(variation_comment)

\* metadata.get(key, default)
Get(h, key, default) == IF key \in DOMAIN h THEN h[key] ELSE default

\* variation_name of branch i (0-based) whose root carries comment c; h is
\* metadata
variation_name(i, c, h) ==
    IF i = 0
    THEN LET comment == IF c # <<>> THEN Strip(c) ELSE MainLineText
         IN  IF Contains(comment, MainLineText) THEN comment
             ELSE <<"Main", " ", "Line", " ", "-", " ">>
                  \o (IF comment # <<>> THEN comment
                      ELSE Get(h, <<"Opening">>, <<"Opening">>))
    ELSE LET comment == IF c # <<>> THEN Strip(c)
                        ELSE <<"Variation", " ">> \o Decimal(i)
         IN  create_chapter_name(comment)

\* re.sub(r'[^\w\s-]', '', s): drop what is no word character, space or hyphen
RECURSIVE Sanitize(_)
Sanitize(s) ==
    IF s = <<>> THEN <<>>
    ELSE IF Head(s) \in WordAtoms \cup WhiteSpace \cup {"-"}
         THEN <<Head(s)>> \o Sanitize(Tail(s))
         ELSE Sanitize(Tail(s))

\* .replace(' ', '_')
SpacesToUnderscores(s) == [k \in 1..Len(s) |-> IF s[k] = " " THEN "_" ELSE s[k]]

safe_name(name) == SpacesToUnderscores(Strip(Sanitize(name)))

\* mutant of output_file: the index prefix is left out
output_file_NoIndex(i, name) == safe_name(name) \o <<".pgn">>

\* f"{i:02d}_{safe_name}.pgn" inside output_dir
output_file(i, name) == Fmt02d(i) \o <<"_">> \o safe_name(name) \o <<".pgn">>

MainLineFile == <<"main_line", ".pgn">>

\* mutant of main_line_text: the parsed game is printed instead
main_line_text_FromGame(content, g) == [content EXCEPT !.game = g]

\* f.write(pgn_content): what main_line.pgn receives, given the text read
\* and the parsed game
main_line_text(content, g) == content

-----------------------------------------------------------------------------
(* Building one chapter *)

SetComment(t, n, c) == [t EXCEPT ![n].comment = c]

\* for nag in variation_node.nags: new_node.nags.add(nag)
AddNags(t, n, ns) == [t EXCEPT ![n].nags = @ \cup ns]

\* add_variation_recursively(parent_node, variation_node): the chapter arena
\* after the call.  AddChildren is its loop over variation_node.variations.
RECURSIVE add_variation_recursively(_, _, _, _)
RECURSIVE AddChildren(_, _, _, _)
add_variation_recursively(ch, parent_node, src, variation_node) ==
    LET new_node == Len(ch) + 1
        c1 == add_variation(ch, parent_node, src[variation_node].move, variation_node)
        c2 == SetComment(c1, new_node, src[variation_node].comment)
        c3 == AddNags(c2, new_node, src[variation_node].nags)
    IN  AddChildren(c3, new_node, src, src[variation_node].variations)

AddChildren(ch, new_node, src, kids) ==
    IF kids = <<>> THEN ch
    ELSE AddChildren(add_variation_recursively(ch, new_node, src, Head(kids)),
                     new_node, src, Tail(kids))

\* mutant of MoveStack: move_stack.reverse() is left out
RECURSIVE MoveStack_NoReverse(_, _)
MoveStack_NoReverse(src, n) ==
    IF src[n].parent = NoNode THEN <<>>
    ELSE <<n>> \o MoveStack_NoReverse(src, src[n].parent)

\* move_stack: the moves from below the root down to n, root side first,
\* here as the nodes that hold them
RECURSIVE MoveStack(_, _)
MoveStack(src, n) ==
    IF src[n].parent = NoNode THEN <<>>
    ELSE Append(MoveStack(src, src[n].parent), n)

\* for move in move_stack: new_node = new_node.add_variation(move)
RECURSIVE ReplayMoves(_, _, _, _)
ReplayMoves(ch, new_node, src, stack) ==
    IF stack = <<>> THEN ch
    ELSE LET c1 == add_variation(ch, new_node, src[Head(stack)].move, Head(stack))
         IN  ReplayMoves(c1, Len(c1), src, Tail(stack))

\* s[1:]
FromOne(s) == IF s = <<>> THEN <<>> ELSE Tail(s)

\* while curr_var_node: copy it under new_node with its comment, add its
\* subvariations [1:] recursively, then go on with its child 0
RECURSIVE CopyLine(_, _, _, _)
CopyLine(ch, new_node, src, curr_var_node) ==
    IF curr_var_node = NoNode THEN ch
    ELSE LET n1 == Len(ch) + 1
             c1 == add_variation(ch, new_node, src[curr_var_node].move, curr_var_node)
             c2 == SetComment(c1, n1, src[curr_var_node].comment)
             c3 == AddChildren(c2, n1, src, FromOne(src[curr_var_node].variations))
             nxt == IF src[curr_var_node].variations # <<>>
                    THEN src[curr_var_node].variations[1] ELSE NoNode
         IN  CopyLine(c3, n1, src, nxt)

\* copy_annotations(game, new_game)
copy_annotations(src, ch) == SetComment(ch, Root, src[Root].comment)

\* the tree of new_game for the branch rooted at variation
BuildChapter(src, variation) ==
    LET stack == MoveStack(src, src[variation].parent)
        c1 == ReplayMoves(NewGame, Root, src, stack)
        c2 == add_variation(c1, Len(c1), src[variation].move, variation)
        b  == Len(c2)
        c3 == SetComment(c2, b, src[variation].comment)
        first == IF src[variation].variations # <<>>
                 THEN src[variation].variations[1] ELSE NoNode
        c4 == CopyLine(c3, b, src, first)
    IN  copy_annotations(src, c4)

\* headers of new_game; UTCDate is the day of the export
Today == <<"today">>

\* chess.pgn.Game() starts with the seven tag roster
TagRoster == {"Event", "Site", "Date", "Round", "White", "Black", "Result"}

RosterDefault(k) ==
    IF k = "Result" THEN <<"*">> ELSE IF k = "Date" THEN <<"????.??.??">> ELSE <<"?">>

\* h is game.headers, metadata what extract_metadata returned
ChapterHeaders(h, metadata, name) ==
    LET chapter_name == Get(metadata, <<"ChapterName">>, <<"Untitled", " ", "Chapter">>)
        keys == TagRoster \cup DOMAIN h \cup {"ChapterName", "UTCDate"}
    IN  [k \in keys |->
            IF k = "ChapterName" THEN chapter_name \o <<":", " ">> \o name
            ELSE IF k = "UTCDate" THEN Today
            ELSE IF k \in DOMAIN h THEN h[k]
            ELSE RosterDefault(k)]

-----------------------------------------------------------------------------
(* Source trees *)

RECURSIVE SortedSeq(_)
SortedSeq(S) ==
    IF S = {} THEN <<>>
    ELSE LET m == CHOOSE x \in S : \A y \in S : x <= y
         IN  <<m>> \o SortedSeq(S \ {m})

\* parents of the nodes 2..n; a node is created after its parent, and a later
\* sibling after an earlier one, as the parser and add_variation create them
ParentMaps(n) == {p \in [2..n -> 1..(n - 1)] : \A k \in 2..n : p[k] < k}

MoveOf(k) == ((k - 2) % NumMoves) + 1

CommentTexts == {<<"x">>, SPLIT_MARKER}

NagSets == {{1}}

HeaderChoices ==
    { ("Event" :> <<"x">>),
      ("Event" :> <<"x">>) @@ ("ChapterName" :> <<"y">>) @@ ("Opening" :> <<"x">>) }

MakeTree(n, p, cm, nn, ns) ==
    [k \in 1..n |->
        [move |-> IF k = Root THEN 0 ELSE MoveOf(k),
         comment |-> IF k \in DOMAIN cm THEN cm[k] ELSE <<>>,
         nags |-> IF k = nn THEN ns ELSE {},
         parent |-> IF k = Root THEN NoNode ELSE p[k],
         variations |-> SortedSeq({j \in 2..n : p[j] = k}),
         orig |-> k,
         own |-> TRUE]]

\* the nodes that may carry comments
CommentedSets(n) == {c \in SUBSET (1..n) : Cardinality(c) <= MaxComments}

-----------------------------------------------------------------------------
(* The export *)

NoDoc == [headers |-> <<>>, roots |-> <<>>, aside |-> <<>>]

NoMeta == [read |-> FALSE, tags |-> <<>>]

NoEdit ==
    [kind |-> "none", what |-> "none", chapter |-> 0, node |-> NoNode,
     game |-> <<>>, chapters |-> <<>>]

NoPick == [move |-> 0, picked |-> NoNode]

NoPrev ==
    [stage |-> "none", from |-> NoNode, first |-> NoPick, second |-> NoPick,
     kids |-> <<>>]

NoTrip == [stage |-> "none", target |-> NoNode, node |-> NoNode, board |-> <<>>]

NoLast ==
    [op |-> "none", game |-> NoNode, tree |-> <<>>, node |-> NoNode,
     board |-> <<>>, target |-> NoNode, error |-> "none", trip |-> NoTrip]

\* ChessboardGUI.__init__: an empty game, the cursor on it, an empty board
GuiStart ==
    /\ gtree = NewGame
    /\ gui_game = Root
    /\ gui_current_node = Root
    /\ board = <<>>
    /\ prev = NoPrev
    /\ last = NoLast

MaxWorkers == 3      \* run_analysis threads started in one session

Workers == 1..MaxWorkers

NoEngine == 0

NoFirstRun == [done |-> FALSE, files |-> <<>>]

\* ChessboardGUI.__init__: no analysis; and no export has been made
RestOff ==
    /\ analysis_running = FALSE
    /\ engine = NoEngine
    /\ worker = [w \in Workers |-> [at |-> "unborn", analysis |-> NoEngine]]
    /\ quit = {}
    /\ harmed = FALSE
    /\ first_run = NoFirstRun

\* no text is being named, no tree has been changed, the editor is untouched
NamesOff ==
    /\ doc = NoDoc
    /\ meta = NoMeta
    /\ named = <<>>
    /\ edit = NoEdit
    /\ GuiStart
    /\ RestOff

\* a source tree of up to MaxNodes nodes: any shape, comments on up to
\* MaxComments nodes, NAGs on at most one node (nn = 0: on none)
Init ==
    /\ \E n \in 1..MaxNodes : \E p \in ParentMaps(n) :
       \E cs \in CommentedSets(n) : \E cm \in [cs -> CommentTexts] :
       \E nn \in 0..n : \E ns \in NagSets :
           game = MakeTree(n, p, cm, nn, ns)
    /\ headers \in HeaderChoices
    /\ pgn_content = [game |-> game, headers |-> headers]
    /\ pc = "idle"
    /\ split_node = NoNode
    /\ node = NoNode
    /\ all_variations = <<>>
    /\ chapters = <<>>
    /\ files = <<>>
    /\ NamesOff

\* main(): the input file exists, process_pgn is called
Main ==
    /\ pc = "idle"
    /\ pc' = "process_pgn"
    /\ UNCHANGED <<game, headers, pgn_content, split_node, node,
                   all_variations, chapters, files>>
    /\ UNCHANGED otherVars

\* ChessboardGUI.export_chessable: nothing is exported for a game without
\* moves; otherwise the game is saved to a temporary file and process_pgn
\* reads it back
export_chessable ==
    /\ pc = "idle"
    /\ pc' = IF game[Root].variations = <<>> THEN "warned" ELSE "process_pgn"
    /\ UNCHANGED <<game, headers, pgn_content, split_node, node,
                   all_variations, chapters, files>>
    /\ UNCHANGED otherVars

\* process_pgn up to the choice of node
LocateSplit ==
    /\ pc = "process_pgn"
    /\ LET found == IF has_split_marker(game, headers)
                    THEN find_split_node(game) ELSE NoNode
       IN  /\ split_node' = found
           /\ IF found # NoNode
              THEN /\ game' = StripMarker(game, found)
                   /\ node' = found
              ELSE /\ game' = game
                   /\ node' = StructuralSplit(game)
    /\ pc' = "collect"
    /\ UNCHANGED <<headers, pgn_content, all_variations, chapters, files>>
    /\ UNCHANGED otherVars

\* all_variations is collected; without a branch the input text is saved as
\* main_line.pgn and process_pgn returns
Collect ==
    /\ pc = "collect"
    /\ all_variations' = AllVariations(game, node)
    /\ IF all_variations' = <<>>
       THEN \/ /\ files' = (MainLineFile :> main_line_text(pgn_content, game))
               /\ pc' = "done"
            \/ /\ files' = files        \* open() raises
               /\ pc' = "raised"
       ELSE /\ files' = files
            /\ pc' = "loop"
    /\ UNCHANGED <<game, headers, pgn_content, split_node, node, chapters>>
    /\ UNCHANGED otherVars

\* the comments of the nodes of t in the order of the text (pre-order)
RECURSIVE CommentsBelow(_, _)
RECURSIVE CommentsOf(_, _)
CommentsBelow(t, n) ==
    (IF t[n].comment # <<>> THEN <<t[n].comment>> ELSE <<>>)
    \o CommentsOf(t, t[n].variations)

CommentsOf(t, kids) ==
    IF kids = <<>> THEN <<>>
    ELSE CommentsBelow(t, Head(kids)) \o CommentsOf(t, Tail(kids))

\* metadata = extract_metadata(pgn_content)
Metadata(content) ==
    extract_metadata(PgnLines(content.headers, CommentsBelow(content.game, Root)))

\* the chapter of branch i, before it is written
Chapter(i) ==
    LET variation == all_variations[i + 1]
        metadata == Metadata(pgn_content)
        name == variation_name(i, game[variation].comment, metadata)
    IN  [index |-> i,
         variation |-> variation,
         name |-> name,
         file |-> output_file(i, name),
         headers |-> ChapterHeaders(headers, metadata, name),
         tree |-> BuildChapter(game, variation)]

\* one pass of the loop over all_variations, the write succeeding
ExportBranch ==
    /\ pc = "loop"
    /\ LET i == Len(chapters)
           c == Chapter(i)
       IN  /\ chapters' = Append(chapters, c @@ [written |-> TRUE])
           /\ files' = (c.file :> [headers |-> c.headers, tree |-> c.tree]) @@ files
           /\ pc' = IF i + 1 = Len(all_variations) THEN "done" ELSE "loop"
    /\ UNCHANGED <<game, headers, pgn_content, split_node, node, all_variations>>
    /\ UNCHANGED otherVars

\* one pass of the loop whose open() or write raises: the exception leaves
\* process_pgn
ExportBranchFails ==
    /\ pc = "loop"
    /\ LET i == Len(chapters)
           c == Chapter(i)
       IN  chapters' = Append(chapters, c @@ [written |-> FALSE])
    /\ pc' = "raised"
    /\ UNCHANGED <<game, headers, pgn_content, split_node, node, all_variations,
                   files>>
    /\ UNCHANGED otherVars

Next ==
    \/ Main
    \/ export_chessable
    \/ LocateSplit
    \/ Collect
    \/ ExportBranch
    \/ ExportBranchFails

Spec == Init /\ [][Next]_vars

-----------------------------------------------------------------------------
(* The export run twice on one source: small trees whose comments hold the  *)
(* marker once, twice, or one occurrence inside another.                    *)

MaxTwiceNodes == 3

SeveralMarkers == SPLIT_MARKER \o <<" ">> \o SPLIT_MARKER

\* "[[SPLIT_CHAPTERS]SPLIT_CHAPTERS]"
NestedMarker == <<"[">> \o SPLIT_MARKER \o <<"SPLIT_CHAPTERS", "]">>

MarkerTexts == {<<"x">>, SPLIT_MARKER, SeveralMarkers, NestedMarker}

InitTwice ==
    /\ \E n \in 1..MaxTwiceNodes : \E p \in ParentMaps(n) :
       \E cs \in CommentedSets(n) : \E cm \in [cs -> MarkerTexts] :
           game = MakeTree(n, p, cm, 0, {})
    /\ headers \in HeaderChoices
    /\ pgn_content = [game |-> game, headers |-> headers]
    /\ pc = "idle"
    /\ split_node = NoNode
    /\ node = NoNode
    /\ all_variations = <<>>
    /\ chapters = <<>>
    /\ files = <<>>
    /\ NamesOff

\* mutant of read_game: the second run goes on with the tree of the first
read_game_SameTree(content, g) == g

\* game = chess.pgn.read_game(StringIO(pgn_content)): the tree comes from the
\* text read from the file, whatever tree g an earlier run has left
read_game(content, g) == content.game

\* process_pgn called once more, on the same input file and an empty output
\* directory, after a run that ended without an exception
ExportAgain ==
    /\ pc = "done"
    /\ ~first_run.done
    /\ first_run' = [done |-> TRUE, files |-> files]
    /\ game' = read_game(pgn_content, game)
    /\ pc' = "process_pgn"
    /\ split_node' = NoNode
    /\ node' = NoNode
    /\ all_variations' = <<>>
    /\ chapters' = <<>>
    /\ files' = <<>>
    /\ UNCHANGED <<headers, pgn_content, nameVars, edit, guiVars, analysisVars>>

NextTwice ==
    \/ Main
    \/ export_chessable
    \/ LocateSplit
    \/ Collect
    \/ ExportBranch
    \/ ExportBranchFails
    \/ ExportAgain

SpecTwice == InitTwice /\ [][NextTwice]_vars

-----------------------------------------------------------------------------
(* The trees after the export: a client changes a node of a chapter or of     *)
(* the source.  A node that is an object of its own changes alone; a source   *)
(* node attached to a chapter is one object in both trees.                    *)

MaxEditNodes == 4    \* nodes of a source tree whose trees are changed later

EditKinds == {"comment", "nags", "children"}

\* node.comment = "y"; node.nags.add(2); node.variations.clear()
Changed(nd, what) ==
    IF what = "comment" THEN [nd EXCEPT !.comment = <<"y">>]
    ELSE IF what = "nags" THEN [nd EXCEPT !.nags = @ \cup {2}]
    ELSE [nd EXCEPT !.variations = <<>>]

InitEdit ==
    /\ \E n \in 1..MaxEditNodes : \E p \in ParentMaps(n) :
       \E cs \in CommentedSets(n) : \E cm \in [cs -> CommentTexts] :
       \E nn \in 0..n : \E ns \in NagSets :
           game = MakeTree(n, p, cm, nn, ns)
    /\ headers = ("Event" :> <<"x">>)
    /\ pgn_content = [game |-> game, headers |-> headers]
    /\ pc = "idle"
    /\ split_node = NoNode
    /\ node = NoNode
    /\ all_variations = <<>>
    /\ chapters = <<>>
    /\ files = <<>>
    /\ NamesOff

\* a node of a chapter is changed
EditChapter ==
    /\ pc = "done"
    /\ edit.kind = "none"
    /\ \E k \in 1..Len(chapters) : \E m \in Nodes(chapters[k].tree) :
       \E what \in EditKinds :
           LET nd == chapters[k].tree[m]
           IN  /\ chapters' = [chapters EXCEPT ![k].tree[m] = Changed(@, what)]
               /\ game' = IF nd.own THEN game
                          ELSE [game EXCEPT ![nd.orig] = Changed(@, what)]
               /\ edit' = [kind |-> "chapter", what |-> what, chapter |-> k,
                           node |-> m, game |-> game, chapters |-> chapters]
    /\ UNCHANGED <<headers, pgn_content, pc, split_node, node, all_variations,
                   files, nameVars, guiVars, restVars>>

\* a node of the source tree is changed
EditSource ==
    /\ pc = "done"
    /\ edit.kind = "none"
    /\ \E n \in Nodes(game) : \E what \in EditKinds :
           /\ game' = [game EXCEPT ![n] = Changed(@, what)]
           /\ chapters' =
                  [k \in 1..Len(chapters) |->
                      [chapters[k] EXCEPT !.tree =
                          [m \in 1..Len(@) |->
                              IF ~@[m].own /\ @[m].orig = n
                              THEN Changed(@[m], what) ELSE @[m]]]]
           /\ edit' = [kind |-> "source", what |-> what, chapter |-> 0,
                       node |-> n, game |-> game, chapters |-> chapters]
    /\ UNCHANGED <<headers, pgn_content, pc, split_node, node, all_variations,
                   files, nameVars, guiVars, restVars>>

NextEdit ==
    \/ Main
    \/ export_chessable
    \/ LocateSplit
    \/ Collect
    \/ ExportBranch
    \/ ExportBranchFails
    \/ EditChapter
    \/ EditSource

SpecEdit == InitEdit /\ [][NextEdit]_vars

-----------------------------------------------------------------------------
(* The editor: ChessboardGUI's game, cursor and board, and the handlers that  *)
(* move the cursor.  The buttons of the variation tree are the nodes of the   *)
(* tree the cursor is in: update_board refreshes them after every handler,    *)
(* and fails before it does when self.game is None.                           *)

MaxGuiNodes == 4     \* nodes of the editor's tree, root included
NumGuiMoves == 2     \* distinct moves played in the editor

GuiMoves == 1..NumGuiMoves

\* what chess.pgn.read_game returns for the files opened: None for an empty
\* file, else the tree; the parser adds a node for every move it reads, so
\* two children of a node may hold the same move ("1. e4 (1. e4) e5")
NoGameRead == <<>>

LineTree == add_variation(add_variation(NewGame, Root, 1, NoNode), 2, 2, NoNode)

DupTree == add_variation(add_variation(NewGame, Root, 1, NoNode), Root, 1, NoNode)

ReadGames == {NoGameRead, LineTree, DupTree}

\* mutant of FindVariation: the main-line child alone is looked at
FindVariation_MainOnly(t, n, m) ==
    IF t[n].variations # <<>> /\ t[t[n].variations[1]].move = m
    THEN t[n].variations[1] ELSE NoNode

\* mutant of FindVariation: no child is ever recognised
FindVariation_Never(t, n, m) == NoNode

\* for variation in self.current_node.variations: if variation.move == move
FindVariation(t, n, m) ==
    LET kids == t[n].variations
        hits == {k \in 1..Len(kids) : t[kids[k]].move = m}
    IN  IF hits = {} THEN NoNode
        ELSE kids[CHOOSE k \in hits : \A j \in hits : k <= j]

Pop(b) == SubSeq(b, 1, Len(b) - 1)

\* mutant of StartLoop: the cursor and the board stay
StartLoop_Stay(t, n, b) == <<n, b>>

\* while self.current_node.parent: board.pop(); current_node = parent.
\* The result is <<current_node, board>>; pop on an empty board raises and
\* ends the loop where it stands.
RECURSIVE StartLoop(_, _, _)
StartLoop(t, n, b) ==
    IF t[n].parent = NoNode \/ b = <<>> THEN <<n, b>>
    ELSE StartLoop(t, t[n].parent, Pop(b))

\* while self.current_node.variations: push variations[0].move and go there
RECURSIVE EndLoop(_, _, _)
EndLoop(t, n, b) ==
    IF t[n].variations = <<>> THEN <<n, b>>
    ELSE EndLoop(t, t[n].variations[1], Append(b, t[t[n].variations[1]].move))

\* _go_to_node: path, the nodes from target upwards until self.game is met,
\* root side first; with self.game None the walk ends at the parent of the
\* root and the root is part of the path
RECURSIVE GoToPath(_, _, _)
GoToPath(t, g, current) ==
    IF current = g THEN <<>>
    ELSE GoToPath(t, g, t[current].parent) \o <<current>>

\* what make_move(m) at n notes for the properties: a second call at the same
\* node after one step back is recorded next to the first
Noted(n, m, picked) ==
    IF prev.stage = "back" /\ prev.from = n
    THEN [prev EXCEPT !.stage = "again",
                      !.second = [move |-> m, picked |-> picked]]
    ELSE [stage |-> "made", from |-> n,
          first |-> [move |-> m, picked |-> picked], second |-> NoPick,
          kids |-> gtree[n].variations]

\* what a navigation handler notes for the properties: the state it met, the
\* button it was given and what became of an exception
Met(op, target_node, error, trip) ==
    [op |-> op, game |-> gui_game, tree |-> gtree, node |-> gui_current_node,
     board |-> board, target |-> target_node, error |-> error, trip |-> trip]

\* goto(x), go_to_start, goto(x) in a row: the outcome of the first goto is
\* kept next to the later calls
TripAfterGoto(target_node, n, b) ==
    IF last.trip.stage = "start" /\ last.trip.target = target_node
    THEN [last.trip EXCEPT !.stage = "again"]
    ELSE [stage |-> "went", target |-> target_node, node |-> n, board |-> b]

TripAfterStart ==
    IF last.op = "goto" /\ last.trip.stage = "went"
    THEN [last.trip EXCEPT !.stage = "start"] ELSE NoTrip

\* mutant of ForwardStep: the last child is taken
ForwardStep_Last(t, n) ==
    [tree |-> t, node |-> t[n].variations[Len(t[n].variations)]]

\* mutant of ForwardStep: the move is added to the node again
ForwardStep_AddVariation(t, n) ==
    [tree |-> add_variation(t, n, t[t[n].variations[1]].move, NoNode),
     node |-> Len(t) + 1]

\* go_forward at a node with children: the tree is not touched and the
\* cursor goes to self.current_node.variations[0]
ForwardStep(t, n) == [tree |-> t, node |-> t[n].variations[1]]

InitGui ==
    /\ game = NewGame
    /\ headers = <<>>
    /\ pgn_content = [game |-> game, headers |-> headers]
    /\ pc = "gui"
    /\ split_node = NoNode
    /\ node = NoNode
    /\ all_variations = <<>>
    /\ chapters = <<>>
    /\ files = <<>>
    /\ NamesOff

\* ChessboardGUI.make_move, called with a legal move
make_move ==
    /\ pc = "gui"
    /\ \E m \in GuiMoves :
           LET variation == FindVariation(gtree, gui_current_node, m)
           IN  IF variation # NoNode
               THEN /\ gtree' = gtree
                    /\ gui_current_node' = variation
                    /\ board' = Append(board, m)
                    /\ prev' = Noted(gui_current_node, m, variation)
               ELSE /\ Len(gtree) < MaxGuiNodes
                    /\ gtree' = add_variation(gtree, gui_current_node, m, NoNode)
                    /\ gui_current_node' = Len(gtree) + 1
                    /\ board' = Append(board, m)
                    /\ prev' = Noted(gui_current_node, m, Len(gtree) + 1)
    /\ last' = NoLast
    /\ UNCHANGED <<exportVars, nameVars, edit, restVars, gui_game>>

\* ChessboardGUI.go_back
go_back ==
    /\ pc = "gui"
    /\ gtree[gui_current_node].parent # NoNode
    /\ board # <<>>
    /\ board' = Pop(board)
    /\ gui_current_node' = gtree[gui_current_node].parent
    /\ prev' = IF prev.stage = "made" /\ prev.first.picked = gui_current_node
               THEN [prev EXCEPT !.stage = "back"] ELSE NoPrev
    /\ last' = Met("go_back", NoNode, "none", NoTrip)
    /\ UNCHANGED <<exportVars, nameVars, edit, restVars, gtree, gui_game>>

\* ChessboardGUI.go_forward
go_forward ==
    /\ pc = "gui"
    /\ IF gtree[gui_current_node].variations # <<>>
       THEN LET step == ForwardStep(gtree, gui_current_node)
            IN  /\ gtree' = step.tree
                /\ board' = Append(board, step.tree[step.node].move)
                /\ gui_current_node' = step.node
       ELSE UNCHANGED <<gtree, board, gui_current_node>>
    /\ prev' = NoPrev
    /\ last' = Met("go_forward", NoNode, "none", NoTrip)
    /\ UNCHANGED <<exportVars, nameVars, edit, restVars, gui_game>>

\* ChessboardGUI.go_to_start
go_to_start ==
    /\ pc = "gui"
    /\ LET s == StartLoop(gtree, gui_current_node, board)
       IN  /\ gui_current_node' = s[1]
           /\ board' = s[2]
    /\ prev' = NoPrev
    /\ last' = Met("go_to_start", NoNode, "none", TripAfterStart)
    /\ UNCHANGED <<exportVars, nameVars, edit, restVars, gtree, gui_game>>

\* ChessboardGUI.go_to_end
go_to_end ==
    /\ pc = "gui"
    /\ LET e == EndLoop(gtree, gui_current_node, board)
       IN  /\ gui_current_node' = e[1]
           /\ board' = e[2]
    /\ prev' = NoPrev
    /\ last' = Met("go_to_end", NoNode, "none", NoTrip)
    /\ UNCHANGED <<exportVars, nameVars, edit, restVars, gtree, gui_game>>

\* VariationTree._go_to_node(target_node), target_node a button of the tree.
\* With self.game None the path starts with the root, whose move is None:
\* the first board.push raises, and the handler goes to the start.
goto ==
    /\ pc = "gui"
    /\ \E target_node \in Nodes(gtree) \ {Root} :
           LET route == GoToPath(gtree, gui_game, target_node)
               s == StartLoop(gtree, gui_current_node, board)
           IN  IF gtree[route[1]].move = 0
               THEN LET again == StartLoop(gtree, s[1], s[2])
                    IN  /\ gui_current_node' = again[1]
                        /\ board' = again[2]
                        /\ last' = Met("goto", target_node, "printed",
                                       TripAfterGoto(target_node, again[1], again[2]))
               ELSE LET b == s[2] \o [k \in 1..Len(route) |-> gtree[route[k]].move]
                    IN  /\ gui_current_node' = route[Len(route)]
                        /\ board' = b
                        /\ last' = Met("goto", target_node, "none",
                                       TripAfterGoto(target_node, route[Len(route)], b))
    /\ prev' = NoPrev
    /\ UNCHANGED <<exportVars, nameVars, edit, restVars, gtree, gui_game>>

\* ChessboardGUI.new_game, the question answered with OK
new_game ==
    /\ pc = "gui"
    /\ board' = <<>>
    /\ gtree' = NewGame
    /\ gui_game' = Root
    /\ gui_current_node' = Root
    /\ prev' = NoPrev
    /\ last' = NoLast
    /\ UNCHANGED <<exportVars, nameVars, edit, restVars>>

\* ChessboardGUI.load_pgn with a file chosen: self.game is assigned what
\* read_game returned before it is tested
load_pgn ==
    /\ pc = "gui"
    /\ \E read \in ReadGames :
           IF read # NoGameRead
           THEN /\ gtree' = read
                /\ gui_game' = Root
                /\ board' = <<>>
                /\ gui_current_node' = Root
                /\ prev' = NoPrev
           ELSE /\ gui_game' = NoNode
                /\ prev' = NoPrev
                /\ UNCHANGED <<gtree, board, gui_current_node>>
    /\ last' = NoLast
    /\ UNCHANGED <<exportVars, nameVars, edit, restVars>>

MaxGuiComments == 1  \* nodes of the editor's tree that carry a comment

\* what the comment field holds when save_comment reads it
CommentEntries == {<<"\n">>, <<" ", "x", "\n">>}

\* ChessboardGUI.save_comment
save_comment ==
    /\ pc = "gui"
    /\ \E entry \in CommentEntries :
           /\ gtree' = SetComment(gtree, gui_current_node, Strip(entry))
           /\ Cardinality({n \in Nodes(gtree) : gtree'[n].comment # <<>>})
                  <= MaxGuiComments
    /\ prev' = NoPrev
    /\ last' = NoLast
    /\ UNCHANGED <<exportVars, nameVars, edit, restVars, gui_game, gui_current_node, board>>

NextGui ==
    \/ make_move
    \/ go_back
    \/ go_forward
    \/ go_to_start
    \/ go_to_end
    \/ goto
    \/ new_game
    \/ load_pgn

SpecGui == InitGui /\ [][NextGui]_vars

\* the editor without load_pgn: the tree is built by make_move alone
NextEditor ==
    \/ make_move
    \/ save_comment
    \/ go_back
    \/ go_forward
    \/ go_to_start
    \/ go_to_end
    \/ goto
    \/ new_game

SpecEditor == InitGui /\ [][NextEditor]_vars

(***************************************************************************)
(* Engine analysis: start_analysis and stop_analysis run on the GUI thread, *)
(* run_analysis on a thread of its own.  A worker is the record of one     *)
(* run_analysis thread: the statement it stands at, and the engine whose   *)
(* analysis it has open.  Engine w is the engine created by worker w.      *)
(***************************************************************************)
Unborn == [at |-> "unborn", analysis |-> NoEngine]

Active(w) == worker[w].at \notin {"unborn", "done"}

At(w, place) == [worker EXCEPT ![w].at = place]

\* a worker started after w is still running
NewerActive(w) == \E v \in Workers : v > w /\ Active(v)

\* ChessboardGUI.start_analysis, the engine path being known
start_analysis ==
    /\ pc = "gui"
    /\ ~analysis_running
    /\ \E w \in Workers :
           /\ worker[w].at = "unborn"
           /\ \A v \in Workers : v < w => worker[v].at # "unborn"
           /\ worker' = At(w, "create")
    /\ analysis_running' = TRUE
    /\ UNCHANGED <<exportVars, nameVars, edit, guiVars, first_run,
                   engine, quit, harmed>>

\* ChessboardGUI.stop_analysis
stop_analysis ==
    /\ pc = "gui"
    /\ analysis_running
    /\ analysis_running' = FALSE
    /\ IF engine # NoEngine
       THEN /\ quit' = quit \cup {engine}
            /\ engine' = NoEngine
       ELSE UNCHANGED <<quit, engine>>
    /\ UNCHANGED <<exportVars, nameVars, edit, guiVars, first_run,
                   worker, harmed>>

\* run_analysis: self.engine = self.create_engine(), and the early return
\* when no engine could be started
CreateEngine ==
    /\ \E w \in Workers :
           /\ worker[w].at = "create"
           /\ \/ /\ engine' = w
                 /\ worker' = At(w, "while")
                 /\ UNCHANGED analysis_running
              \/ /\ engine' = NoEngine
                 /\ analysis_running' = FALSE
                 /\ worker' = At(w, "finally")
    /\ UNCHANGED <<exportVars, nameVars, edit, guiVars, first_run,
                   quit, harmed>>

\* run_analysis: while self.analysis_running, and the break on the timeout
WhileCheck ==
    /\ \E w \in Workers :
           /\ worker[w].at = "while"
           /\ IF analysis_running
              THEN \/ worker' = At(w, "with")
                   \/ worker' = At(w, "cleanup")
              ELSE worker' = At(w, "cleanup")
    /\ UNCHANGED <<exportVars, nameVars, edit, guiVars, first_run,
                   analysis_running, engine, quit, harmed>>

\* run_analysis: with self.engine.analysis(current_pos, limit); it raises
\* when self.engine is None
OpenAnalysis ==
    /\ \E w \in Workers :
           /\ worker[w].at = "with"
           /\ IF engine = NoEngine
              THEN worker' = At(w, "finally")
              ELSE worker' = [worker EXCEPT
                                  ![w] = [at |-> "for", analysis |-> engine]]
    /\ UNCHANGED <<exportVars, nameVars, edit, guiVars, first_run,
                   analysis_running, engine, quit, harmed>>

\* run_analysis: for info in analysis; the engine having been quit, the
\* iteration raises or ends; otherwise it takes an info or leaves the loop
ReadInfo ==
    /\ \E w \in Workers :
           /\ worker[w].at = "for"
           /\ IF worker[w].analysis \in quit
              THEN \/ worker' = [worker EXCEPT ![w] =
                                     [at |-> "finally", analysis |-> NoEngine]]
                   \/ worker' = [worker EXCEPT ![w] =
                                     [at |-> "while", analysis |-> NoEngine]]
              ELSE worker' = [worker EXCEPT ![w] =
                                  [at |-> "while", analysis |-> NoEngine]]
    /\ UNCHANGED <<exportVars, nameVars, edit, guiVars, first_run,
                   analysis_running, engine, quit, harmed>>

\* run_analysis, "Cleanup": if self.engine: self.engine.quit();
\* self.engine = None
Cleanup ==
    /\ \E w \in Workers :
           /\ worker[w].at = "cleanup"
           /\ worker' = At(w, "finally")
           /\ IF engine # NoEngine
              THEN /\ quit' = quit \cup {engine}
                   /\ engine' = NoEngine
                   /\ harmed' = (harmed \/ engine > w)
              ELSE UNCHANGED <<quit, engine, harmed>>
    /\ UNCHANGED <<exportVars, nameVars, edit, guiVars, first_run,
                   analysis_running>>

\* run_analysis, finally: self.analysis_running = False
Finally ==
    /\ \E w \in Workers :
           /\ worker[w].at = "finally"
           /\ worker' = At(w, "done")
           /\ harmed' = (harmed \/ (analysis_running /\ NewerActive(w)))
    /\ analysis_running' = FALSE
    /\ UNCHANGED <<exportVars, nameVars, edit, guiVars, first_run,
                   engine, quit>>

NextAnalysis ==
    \/ start_analysis
    \/ stop_analysis
    \/ CreateEngine
    \/ WhileCheck
    \/ OpenAnalysis
    \/ ReadInfo
    \/ Cleanup
    \/ Finally

SpecAnalysis == InitGui /\ [][NextAnalysis]_vars

-----------------------------------------------------------------------------
(* Naming alone: lines 54-57, 146-171 and 208-210 of process_pgn applied to   *)
(* two branch roots of one export, whatever text their comments hold          *)

NameAtoms == {"x", " ", "\n", "!", "0", "_"}

\* the comments of the first root: every text of up to MaxNameLen pieces, and
\* texts that say Main Line
NameComments ==
    UNION {[1..k -> NameAtoms] : k \in 0..MaxNameLen}
    \cup {MainLineText, <<"x", " ">> \o MainLineText, <<" ">> \o MainLineText}

\* the comments of the second root
OtherComments == {<<>>, <<"x">>, <<"_", "x">>, <<"0", "x">>, <<"!">>}

\* the positions of two roots in all_variations
BranchIndices == {0, 1, 10, 100, 101}

NameHeaders ==
    { ("Event" :> <<"x">>),
      ("Event" :> <<"x">>) @@ ("ChapterName" :> <<"y">>) @@ ("Opening" :> <<"y">>) }

\* one more comment of the text: none, or one that quotes a tag pair
Asides ==
    { <<>>,
      <<"[", "ChapterName", " ", Quote, "x", Quote, "]">>,
      <<"[", "Opening", " ", Quote, "x", Quote, "]">> }

\* the comments of the text in the order they are read
DocComments(d) ==
    SelectSeq(<<d.roots[1].comment, d.roots[2].comment, d.aside>>,
              LAMBDA c : c # <<>>)

InitNames ==
    /\ game = NewGame
    /\ headers = <<>>
    /\ pgn_content = [game |-> game, headers |-> headers]
    /\ pc = "names"
    /\ split_node = NoNode
    /\ node = NoNode
    /\ all_variations = <<>>
    /\ chapters = <<>>
    /\ files = <<>>
    /\ \E h \in NameHeaders : \E a \in Asides :
       \E i \in BranchIndices : \E j \in BranchIndices :
       \E c \in NameComments : \E o \in OtherComments :
           /\ i < j
           /\ doc = [headers |-> h,
                     roots |-> <<[index |-> i, comment |-> c],
                                 [index |-> j, comment |-> o]>>,
                     aside |-> a]
    /\ meta = NoMeta
    /\ named = <<>>
    /\ edit = NoEdit
    /\ GuiStart
    /\ RestOff

\* metadata = extract_metadata(pgn_content)
ReadMetadata ==
    /\ pc = "names"
    /\ ~meta.read
    /\ meta' = [read |-> TRUE,
                tags |-> extract_metadata(PgnLines(doc.headers, DocComments(doc)))]
    /\ UNCHANGED <<exportVars, edit, guiVars, restVars, doc, named>>

\* one pass of the loop as far as the names go
NameBranch ==
    /\ pc = "names"
    /\ meta.read
    /\ Len(named) < Len(doc.roots)
    /\ LET r == doc.roots[Len(named) + 1]
           name == variation_name(r.index, r.comment, meta.tags)
       IN  named' = Append(named,
                          [index |-> r.index,
                           comment |-> r.comment,
                           name |-> name,
                           safe |-> safe_name(name),
                           file |-> output_file(r.index, name),
                           headers |-> ChapterHeaders(doc.headers, meta.tags, name)])
    /\ UNCHANGED <<exportVars, edit, guiVars, restVars, doc, meta>>

NextNames ==
    \/ ReadMetadata
    \/ NameBranch

SpecNames == InitNames /\ [][NextNames]_vars

-----------------------------------------------------------------------------
(* Vocabulary of the properties *)

\* the tree as it was read, before find_split_node touched it
Source == pgn_content.game

Located == pc \in {"collect", "loop", "done", "raised"}

Marked(t, n) == Contains(t[n].comment, SPLIT_MARKER)

\* n and everything below it
RECURSIVE Subtree(_, _)
Subtree(t, n) ==
    {n} \cup UNION {Subtree(t, t[n].variations[k]) : k \in 1..Len(t[n].variations)}

IndexIn(s, x) == CHOOSE k \in 1..Len(s) : s[k] = x

\* child indices from the root down to n
RECURSIVE PathOf(_, _)
PathOf(t, n) ==
    IF n = Root THEN <<>>
    ELSE Append(PathOf(t, t[n].parent), IndexIn(t[t[n].parent].variations, n))

\* a comes before b in pre-order: a node before its subtree, children by index
PreOrderBefore(a, b) ==
    \/ Len(a) < Len(b) /\ SubSeq(b, 1, Len(a)) = a
    \/ \E k \in 1..Len(a) :
          /\ k <= Len(b)
          /\ SubSeq(a, 1, k - 1) = SubSeq(b, 1, k - 1)
          /\ a[k] < b[k]

RECURSIVE Ancestors(_, _)
Ancestors(t, n) ==
    IF t[n].parent = NoNode THEN {}
    ELSE {t[n].parent} \cup Ancestors(t, t[n].parent)

OnMainLine(t, n) ==
    \A a \in (Ancestors(t, n) \cup {n}) \ {Root} : t[t[a].parent].variations[1] = a

\* moves on the way from the root to n
RECURSIVE PathMoves(_, _)
PathMoves(t, n) ==
    IF n = Root THEN <<>> ELSE Append(PathMoves(t, t[n].parent), t[n].move)

-----------------------------------------------------------------------------
(* C1: the chapter of a branch root B holds a copy of every node of the     *)
(* source subtree rooted at B, with the same move and comment, attached     *)
(* under the copy of the same parent.                                       *)
C1_SubtreeCopied ==
    \A k \in 1..Len(chapters) :
        LET c == chapters[k]
            B == c.variation
        IN  \A n \in Subtree(game, B) :
                \E m \in Nodes(c.tree) :
                    /\ c.tree[m].orig = n
                    /\ c.tree[m].move = game[n].move
                    /\ c.tree[m].comment = game[n].comment
                    /\ n # B => c.tree[c.tree[m].parent].orig = game[n].parent

(* C2: every node copied from the subtree under B carries the NAG set of    *)
(* its source node.                                                         *)
C2_NagsCopied ==
    \A k \in 1..Len(chapters) :
        LET c == chapters[k]
        IN  \A m \in Nodes(c.tree) :
                c.tree[m].orig \in Subtree(game, c.variation)
                    => c.tree[m].nags = game[c.tree[m].orig].nags

(* C3: an export that ends without a failed write has produced as many      *)
(* chapter files as the split node has children (at least one child).       *)
C3_OneFilePerChild ==
    (pc = "done" /\ Len(game[node].variations) >= 1)
        => Cardinality(DOMAIN files) = Len(game[node].variations)

C3_Witness ==
    /\ pc = "done"
    /\ Len(game[node].variations) >= 3
    /\ safe_name(chapters[2].name) = safe_name(chapters[3].name)

(* C4: with the marker on a node other than the root, the locator returns   *)
(* the first such node in pre-order, whatever the shape of the main line.   *)
C4_FirstMarkedNode ==
    (Located /\ \E n \in Nodes(Source) \ {Root} : Marked(Source, n))
        => /\ split_node \in Nodes(Source) \ {Root}
           /\ Marked(Source, split_node)
           /\ \A m \in Nodes(Source) \ {Root, split_node} :
                  Marked(Source, m)
                      => PreOrderBefore(PathOf(Source, split_node), PathOf(Source, m))
           /\ node = split_node

(* C5: a marker in the root's comment is ignored: the root is not returned  *)
(* as the explicit split point and its comment is left as it was.           *)
C5_RootMarkerIgnored ==
    (Located /\ Marked(Source, Root))
        => /\ split_node # Root
           /\ game[Root].comment = Source[Root].comment

(* C6: without any marker, and with a main-line node that has more than     *)
(* one child, the split node is the first such node from the root.          *)
C6_FirstBranchingMainLineNode ==
    (/\ Located
     /\ \A n \in Nodes(Source) : ~Marked(Source, n)
     /\ \E n \in Nodes(Source) : OnMainLine(Source, n) /\ Len(Source[n].variations) > 1)
        => /\ OnMainLine(game, node)
           /\ Len(game[node].variations) > 1
           /\ \A a \in Ancestors(game, node) : Len(game[a].variations) <= 1

C6_Witness ==
    /\ Located
    /\ \A n \in Nodes(Source) : ~Marked(Source, n)
    /\ node # Root
    /\ Len(game[node].variations) > 1
    /\ Len(game[Root].variations) = 1

(* C7: without any marker and without a main-line node that has more than   *)
(* one child, the split node is the first main-line node, the root          *)
(* included, that has a child; its children are the branches exported.      *)
C7_FirstMainLineNodeWithChild ==
    (/\ pc \in {"loop", "done", "raised"}
     /\ \A n \in Nodes(Source) : ~Marked(Source, n)
     /\ \A n \in Nodes(Source) : OnMainLine(Source, n) => Len(Source[n].variations) <= 1
     /\ Len(Source) > 1)
        => /\ OnMainLine(game, node)
           /\ Len(game[node].variations) >= 1
           /\ \A a \in Ancestors(game, node) : game[a].variations = <<>>
           /\ all_variations = game[node].variations

(* C8 as stated: when the split node has no children, the export writes no  *)
(* file and ends without an error.                                          *)
C8_NothingWritten ==
    (pc \in {"done", "raised"} /\ all_variations = <<>>)
        => pc = "done" /\ DOMAIN files = {}

(* C8 as amended: when the split node has no children, process_pgn exports  *)
(* no chapter and saves the input text unchanged as main_line.pgn, the only *)
(* file it writes; export_chessable on a game without moves writes nothing. *)
C8_MainLineSaved ==
    /\ (pc = "done" /\ game[node].variations = <<>>)
          => /\ chapters = <<>>
             /\ DOMAIN files = {MainLineFile}
             /\ files[MainLineFile] = [game |-> Source, headers |-> headers]
    /\ pc = "warned" => DOMAIN files = {}

C8_Witness ==
    /\ pc = "done"
    /\ node # Root
    /\ game[node].variations = <<>>
    /\ Marked(Source, node)
    /\ MainLineFile \in DOMAIN files

(* C9: a failed write of branch i does not keep the export from attempting  *)
(* every later branch.                                                      *)
C9_LaterBranchesAttempted ==
    (pc \in {"done", "raised"} /\ all_variations # <<>>)
        => Len(chapters) = Len(all_variations)

(* C10: chapters come in the order of the split node's children: the        *)
(* chapter with index prefix i is built from child i, child 0 first.        *)
C10_ChildOrder ==
    \A k \in 1..Len(chapters) :
        LET c == chapters[k]
            B == game[node].variations[k]
        IN  /\ c.index = k - 1
            /\ SubSeq(c.file, 1, 3) = Fmt02d(k - 1) \o <<"_">>
            /\ c.variation = B
            /\ \E m \in Nodes(c.tree) :
                  /\ c.tree[m].orig = B
                  /\ PathMoves(c.tree, m) = PathMoves(game, B)
                  /\ c.tree[m].comment = game[B].comment

C10_Witness ==
    /\ pc = "done"
    /\ Len(chapters) >= 3
    /\ game[all_variations[1]].comment = <<>>
    /\ game[all_variations[3]].comment # <<>>

-----------------------------------------------------------------------------
\* n, then child 0 repeatedly, for at most the given number of steps
RECURSIVE Down(_, _, _)
Down(t, n, steps) ==
    IF steps = 0 \/ t[n].variations = <<>> THEN <<n>>
    ELSE <<n>> \o Down(t, t[n].variations[1], steps - 1)

\* the source nodes beside the path from the root to S
BesidePath(t, S) ==
    LET path == (Ancestors(t, S) \cup {S}) \ {Root}
    IN  {x \in Nodes(t) \ path : \E a \in path : t[x].parent = t[a].parent}

(* C11: in every chapter the nodes from the root down to the copy of the    *)
(* branch root B are a chain: every node above the copy of B has exactly    *)
(* one child, the moves are those on the source path from the root to the   *)
(* split node S followed by B's move, no sibling of a node on that path is  *)
(* in the chapter, and the copy of B carries B's comment.                   *)
C11_LinearPrefix ==
    \A k \in 1..Len(chapters) :
        LET c == chapters[k]
            B == c.variation
            S == game[B].parent
            d == Len(PathMoves(game, S))
            chain == Down(c.tree, Root, d + 1)
        IN  /\ Len(chain) = d + 2
            /\ \A j \in 1..(d + 1) : Len(c.tree[chain[j]].variations) = 1
            /\ [j \in 1..(d + 1) |-> c.tree[chain[j + 1]].move]
                   = Append(PathMoves(game, S), game[B].move)
            /\ c.tree[chain[d + 2]].comment = game[B].comment
            /\ \A m \in Nodes(c.tree) : c.tree[m].orig \notin BesidePath(game, S)

C11_Witness ==
    /\ pc = "done"
    /\ all_variations # <<>>
    /\ Len(PathMoves(game, node)) >= 2
    /\ BesidePath(game, node) # {}
    /\ game[all_variations[1]].comment # <<>>


-----------------------------------------------------------------------------
(* Names and file names *)

VariationText(i) == <<"Variation", " ">> \o Decimal(i)

\* the header value as game.headers holds it
HeaderValue(h, key, default) == IF key \in DOMAIN h THEN h[key] ELSE default

C14_ChapterHeaders ==
    \A k \in 1..Len(named) :
        LET r == named[k]
        IN  /\ \A key \in DOMAIN doc.headers \ {"ChapterName", "UTCDate"} :
                   key \in DOMAIN r.headers /\ r.headers[key] = doc.headers[key]
            /\ r.headers["UTCDate"] = Today
            /\ "ChapterName" \in DOMAIN doc.headers =>
                   r.headers["ChapterName"]
                       = doc.headers["ChapterName"] \o <<":", " ">> \o r.name

AlphaNumeric == WordAtoms \ {"_"}

\* the file name before the extension
NamePart(file) == SubSeq(file, 1, Len(file) - 1)

\* C15: before its extension a chapter file name holds only alphanumeric
\* characters, underscores and hyphens, and it is not empty, whatever the
\* display name holds.
C15_SafeFileName ==
    \A k \in 1..Len(named) :
        LET part == NamePart(named[k].file)
        IN  /\ part # <<>>
            /\ \A j \in 1..Len(part) : part[j] \in AlphaNumeric \cup {"_", "-"}

\* every maximal run of whitespace of s replaced by one underscore
RECURSIVE CollapseRuns(_)
CollapseRuns(s) ==
    IF s = <<>> THEN <<>>
    ELSE IF Head(s) \in WhiteSpace
         THEN <<"_">> \o CollapseRuns(LStrip(s))
         ELSE <<Head(s)>> \o CollapseRuns(Tail(s))

\* C16: in the file name every maximal run of whitespace inside the sanitized
\* and trimmed display name has become exactly one underscore.
C16_RunsCollapsed ==
    \A k \in 1..Len(named) :
        named[k].safe = CollapseRuns(Strip(Sanitize(named[k].name)))

\* C17: no two branches of one export are written to the same file name.
C17_DistinctFiles ==
    \A a, b \in 1..Len(named) : a # b => named[a].file # named[b].file

\* two branches with the same sanitized name, one of them at index 100
C17_Witness ==
    /\ Len(named) = 2
    /\ named[1].safe = named[2].safe
    /\ named[2].index >= 100

-----------------------------------------------------------------------------
(* Independence of the chapters *)

\* the moves, NAGs, parents and child order of two trees agree
SameButComments(t, u) ==
    /\ Len(t) = Len(u)
    /\ \A n \in Nodes(t) :
           /\ t[n].move = u[n].move
           /\ t[n].nags = u[n].nags
           /\ t[n].parent = u[n].parent
           /\ t[n].variations = u[n].variations

-----------------------------------------------------------------------------
(* The editor's cursor *)

\* the children of n that hold the move m
ChildrenFor(t, n, m) ==
    {c \in Nodes(t) : t[c].parent = n /\ t[c].move = m}

HasMove(t, kids, m) == \E k \in 1..Len(kids) : t[kids[k]].move = m

\* make_move, go_back and make_move again have been called at one node
MadeTwice == prev.stage = "again"

\* C19 as stated: the same move made twice from a node n selects the same
\* child both times and leaves n with one child for the move; two distinct
\* moves (neither of them played at n before) append two distinct children in
\* call order at the end of n's children, the children n had keeping their
\* places.
C19_OneChildPerMove ==
    MadeTwice =>
        LET n == prev.from
            a == prev.first
            b == prev.second
        IN  /\ a.move = b.move =>
                  /\ a.picked = b.picked
                  /\ Cardinality(ChildrenFor(gtree, n, a.move)) = 1
            /\ (/\ a.move # b.move
                /\ ~HasMove(gtree, prev.kids, a.move)
                /\ ~HasMove(gtree, prev.kids, b.move)) =>
                  /\ a.picked # b.picked
                  /\ gtree[n].variations = prev.kids \o <<a.picked, b.picked>>

\* C19 amended: the same move made twice from a node n selects the same
\* child both times, the second call adds no child, and n has one child for
\* the move unless it had several before the first call; two distinct moves,
\* neither played at n before, append two distinct children in call order at
\* the end of n's children, the children n had keeping their places.
C19_SameChildTwice ==
    MadeTwice =>
        LET n == prev.from
            a == prev.first
            b == prev.second
            before == {prev.kids[k] : k \in 1..Len(prev.kids)}
            had == {c \in before : gtree[c].move = a.move}
        IN  /\ a.move = b.move =>
                  /\ a.picked = b.picked
                  /\ gtree[n].variations =
                         IF had = {} THEN Append(prev.kids, a.picked) ELSE prev.kids
                  /\ Cardinality(had) <= 1 =>
                         Cardinality(ChildrenFor(gtree, n, a.move)) = 1
            /\ (/\ a.move # b.move
                /\ ~HasMove(gtree, prev.kids, a.move)
                /\ ~HasMove(gtree, prev.kids, b.move)) =>
                  /\ a.picked # b.picked
                  /\ gtree[n].variations = prev.kids \o <<a.picked, b.picked>>

\* a move new at its node has been made twice
C19_Witness ==
    /\ MadeTwice
    /\ prev.first.move = prev.second.move
    /\ ~HasMove(gtree, prev.kids, prev.first.move)
    /\ prev.kids # <<>>

RECURSIVE Below(_, _)
Below(t, g) ==
    IF g = NoNode THEN {}
    ELSE {g} \cup UNION {Below(t, t[g].variations[k]) : k \in 1..Len(t[g].variations)}

\* C21: in every reachable state the current node belongs to the game tree
\* the session owns: it is reached from self.game by child links, also after
\* new_game, after a load_pgn that succeeds and after one whose file holds
\* no game.
C21_CursorInGame == gui_current_node \in Below(gtree, gui_game)

NavOps == {"go_back", "go_forward", "go_to_start", "go_to_end", "goto"}

\* C22: go_back, go_forward, go_to_start, go_to_end and goto leave the game
\* tree unchanged: no node added or removed, every node with the children,
\* move, comment and NAGs it had.
C22_NavigationKeepsTree == last.op \in NavOps => gtree = last.tree

\* goto has moved the cursor in a tree with a sideline
C22_Witness ==
    /\ last.op = "goto"
    /\ gui_current_node # last.node
    /\ \E n \in Nodes(gtree) : Len(gtree[n].variations) >= 2

C24_GotoRoundTrip ==
    last.op = "goto" =>
        /\ gui_current_node = last.target
        /\ last.trip.stage = "again" =>
               /\ gui_current_node = last.trip.node
               /\ board = last.trip.board

\* the node given to goto does not belong to the tree the session owns
ForeignTarget == last.op = "goto" /\ last.target \notin Below(last.tree, last.game)

RECURSIVE Up(_, _, _)
Up(t, n, k) ==
    IF k = 0 \/ n = NoNode THEN n ELSE Up(t, t[n].parent, k - 1)

Occurrences(kids, n) == Cardinality({k \in 1..Len(kids) : kids[k] = n})

\* C29: from a new game on, whatever make_move, save_comment and the
\* navigation did, the tree has one root (no move, no parent), every other
\* node has one parent and stands once in that parent's children and in no
\* other node's, no node has two children with the same move, and the parent
\* links do not run in a circle.
C29_WellFormedTree ==
    /\ {n \in Nodes(gtree) : gtree[n].parent = NoNode} = {Root}
    /\ gtree[Root].move = 0
    /\ \A n \in Nodes(gtree) \ {Root} :
           /\ gtree[n].parent \in Nodes(gtree)
           /\ gtree[n].move # 0
           /\ \A p \in Nodes(gtree) :
                  Occurrences(gtree[p].variations, n)
                      = IF p = gtree[n].parent THEN 1 ELSE 0
           /\ Up(gtree, n, Len(gtree)) = NoNode
    /\ \A p \in Nodes(gtree) : \A m \in GuiMoves :
           Cardinality(ChildrenFor(gtree, p, m)) <= 1

\* a tree with a sideline and a comment, the cursor below the root
C29_Witness ==
    /\ Len(gtree) >= 4
    /\ \E n \in Nodes(gtree) : Len(gtree[n].variations) >= 2
    /\ \E n \in Nodes(gtree) : gtree[n].comment # <<>>
    /\ gui_current_node # Root

\* C30: under every interleaving of start_analysis, stop_analysis and the
\* steps of run_analysis at most one worker is active, and the finishing
\* steps of an old worker never stop or strip the engine of a newer one
C30_OneWorker ==
    /\ Cardinality({w \in Workers : Active(w)}) <= 1
    /\ ~harmed

\* C28: for every node of the source subtree under a branch root, the
\* children of its copy in the chapter stand in the order of the source; in
\* particular the copy of the source main-line child is the first child
C28_ChildOrder ==
    \A k \in 1..Len(chapters) :
        LET c == chapters[k]
        IN  \A m \in Nodes(c.tree) :
                c.tree[m].orig \in Subtree(game, c.variation) =>
                    LET kids == c.tree[m].variations
                        srcKids == game[c.tree[m].orig].variations
                    IN  \A i, j \in 1..Len(kids) :
                            i < j => IndexIn(srcKids, c.tree[kids[i]].orig)
                                         < IndexIn(srcKids, c.tree[kids[j]].orig)

\* C26: once the locator has returned a node found by the marker, the comment
\* stored on that node does not contain the marker, whatever the comment was,
\* and no other node's comment has changed
C26_MarkerRemoved ==
    (Located /\ split_node # NoNode) =>
        /\ ~Contains(game[split_node].comment, SPLIT_MARKER)
        /\ \A n \in Nodes(game) \ {split_node} :
               game[n].comment = Source[n].comment

====
